---- MODULE Spec2Model ----
(***************************************************************************)
(* The lambda scheduler of cargo-lambda-watch (scheduler.rs): the          *)
(* scheduler loop, the construction worker it spawns, and the Function     *)
(* Runners (start_function) it launches, communicating over the req, gc    *)
(* and wx channels.  The Request Cache (state.req_cache), the Process      *)
(* Supervisor (watcher::new, wx.main) and the Extension Notifier           *)
(* (ext_cache.send_event) live outside scheduler.rs; the cache is modelled *)
(* from its contract, the other two as the environment of the runner.      *)
(*                                                                         *)
(* rx.blocking_recv() is modelled by its return value: the runner waits    *)
(* until the worker has answered on the one-shot channel.                  *)
(***************************************************************************)
EXTENDS Naturals, Sequences, FiniteSets, TLC

\* ---------------------------------------------------------------- bounds
\* Number of invocations the clients submit in one run.
MaxRequests == 3

\* -------------------------------------------------------- program constants
\* mpsc::channel::<InvokeRequest>(100)
ReqCapacity == 100
\* mpsc::channel::<String>(10)
GcCapacity == 10
\* mpsc::channel::<(oneshot::Sender, Command, WatcherConfig, ExtensionCache)>(10)
WxCapacity == 10

\* Function names the clients invoke.  The cache rejects the names of
\* InvalidNames ("structurally invalid" function identifiers).
ValidNames == {"hello", "world"}
InvalidNames == {"bad/name"}
Names == ValidNames \cup InvalidNames

VARIABLES
    only_lambda_apis, \* watcher_config.only_lambda_apis
    req_rx,           \* ingress channel: InvokeRequests sent, not yet received
    sent,             \* number of InvokeRequests submitted so far
    cache,            \* state.req_cache: function name -> [api, queue]
    apis,             \* number of API ids the cache has assigned
    sched,            \* start_scheduler: "running", "stopped" (Ok) or "failed" (Err)
    shutdown,         \* the root shutdown signal has been raised
    gc_rx,            \* garbage-collect channel: names sent, not yet received
    wx_rx,            \* construction channel: requests sent, not yet received
    wx_cur,           \* the request the construction worker is building, or NoReq
    runners,          \* the Function Runners launched so far, in launch order
    events,           \* NextEvents broadcast through ext_cache.send_event
    cleans,           \* history: per function, how often clean ran for it
    unserved,         \* history: queued request ids no live process has coexisted with
    lost,             \* history: request ids clean removed while still unserved
    watcher_config,   \* start_scheduler's WatcherConfig (name, bin_name, runtime_api)
    prep              \* one start_function call followed through lines 100-107

vars == <<only_lambda_apis, req_rx, sent, cache, apis, sched, shutdown, gc_rx,
          wx_rx, wx_cur, runners, events, cleans, unserved, lost, watcher_config, prep>>

NoReq == [tx |-> 0]

\* Option<T>: None, Some(x)
None == <<>>
Some(x) == <<x>>

\* cargo_lambda_invoke::DEFAULT_PACKAGE_FUNCTION, the default-package sentinel
DEFAULT_PACKAGE_FUNCTION == "_"

\* The CargoOptions of a plain `cargo lambda watch`: no features, debug build.
default_cargo_options == [features |-> None, release |-> FALSE]

\* The WatcherConfig start_scheduler is given: the per-function fields unset.
base_watcher_config == [name |-> "", bin_name |-> None, runtime_api |-> 0]

Runners == 1..Len(runners)

\* ------------------------------------------------------------ Request Cache
\* upsert: Err for a structurally invalid name; Some((name, api)) and a new
\* entry holding the request when the function has no entry; otherwise None
\* and the request is appended to the entry's queue.
upsert(c, n, req) ==
    IF req.function_name \in InvalidNames
    THEN [err |-> TRUE, cache |-> c, directive |-> <<>>]
    ELSE IF req.function_name \notin DOMAIN c
    THEN [err |-> FALSE,
          cache |-> [f \in DOMAIN c \cup {req.function_name} |->
                        IF f = req.function_name
                        THEN [api |-> n + 1, queue |-> <<req.id>>]
                        ELSE c[f]],
          directive |-> <<req.function_name, n + 1>>]
    ELSE [err |-> FALSE,
          cache |-> [c EXCEPT ![req.function_name].queue = Append(@, req.id)],
          directive |-> <<>>]

\* The request ids queued in cache c.
QueuedIdsOf(c) == UNION {{c[f].queue[i] : i \in 1..Len(c[f].queue)} : f \in DOMAIN c}

\* clean: removes the entry (and its queue); a no-op without an entry.
clean(c, name) == [f \in DOMAIN c \ {name} |-> c[f]]

\* ----------------------------------------------------------------- helpers
\* Mutant of loop_running: the loop goes on after the shutdown branch.
loop_running_after_shutdown == sched /= "failed"

\* start_scheduler is inside its loop (it has not returned).
loop_running == sched = "running"

\* format!("{name} function shutting down")
shutdown_reason(name) == name \o " function shutting down"

\* Mutant of is_valid_bin_name: the sentinel is not excluded.
is_valid_bin_name_nonempty(name) == name /= ""

\* fn is_valid_bin_name(name: &str) -> bool
is_valid_bin_name(name) == name /= "" /\ name /= DEFAULT_PACKAGE_FUNCTION

\* fn cargo_command(name, cargo_options) -> Command::Exec { prog, args }
cargo_command(name, cargo_options) ==
    [prog |-> "cargo",
     args |-> <<"run">>
              \o (IF cargo_options.features /= None
                  THEN <<"--features", cargo_options.features[1]>>
                  ELSE <<>>)
              \o (IF cargo_options.release THEN <<"--release">> ELSE <<>>)
              \o (IF is_valid_bin_name(name) THEN <<"--bin", name>> ELSE <<>>)]

\* Mutant of set_bin_name: the decision tests the empty name only.
set_bin_name_nonempty(config, name) ==
    [config EXCEPT !.bin_name = IF name /= "" THEN Some(name) ELSE None]

\* watcher_config.bin_name = if is_valid_bin_name(&name) { Some(name.clone()) } else { None };
set_bin_name(config, name) ==
    [config EXCEPT !.bin_name = IF is_valid_bin_name(name) THEN Some(name) ELSE None]

\* watcher_config.name = name.clone();
set_name(config, name) == [config EXCEPT !.name = name]

\* watcher_config.runtime_api = runtime_api;
set_runtime_api(config, runtime_api) == [config EXCEPT !.runtime_api = runtime_api]

\* The runner task subsys.start creates for a spawn directive; it is given
\* watcher_config.clone().
new_runner(name, api) ==
    [name |-> name, api |-> api, pc |-> "send_wx", rx |-> "empty",
     proc |-> "none", branch |-> "none", gc_sent |-> <<>>, gc_err |-> FALSE,
     watcher_config |-> watcher_config, wx |-> None]

\* Mutant of launch: the only_lambda_apis test is dropped.
launch_ignoring_mode(directive, only_apis) ==
    IF directive /= <<>>
    THEN <<[name |-> directive[1], api |-> directive[2], pc |-> "send_wx",
            rx |-> "empty", proc |-> "none", branch |-> "none",
            gc_sent |-> <<>>, gc_err |-> FALSE,
            watcher_config |-> watcher_config, wx |-> None]>>
    ELSE <<>>

\* if let Some((name, api)) = result { if !watcher_config.only_lambda_apis {
\*     subsys.start("lambda runtime", start_function(s, name, api, ..)) } }
launch(directive, only_apis) ==
    IF directive /= <<>> /\ ~only_apis
    THEN <<new_runner(directive[1], directive[2])>>
    ELSE <<>>

\* A runner whose backing process is starting (construction requested or
\* under way) or running.
Alive(r) ==
    \/ runners[r].pc \in {"send_wx", "recv_wx"}
    \/ runners[r].proc = "live"

LiveProcess(f) == \E r \in Runners : runners[r].name = f /\ runners[r].proc = "live"

\* -------------------------------------------------------------------- Init
\* start_scheduler's state before its first loop iteration.
InitScheduler ==
    /\ only_lambda_apis \in BOOLEAN
    /\ req_rx = <<>>
    /\ sent = 0
    /\ cache = <<>>
    /\ apis = 0
    /\ sched = "running"
    /\ shutdown = FALSE
    /\ gc_rx = <<>>
    /\ wx_rx = <<>>
    /\ wx_cur = NoReq
    /\ runners = <<>>
    /\ events = <<>>
    /\ cleans = [f \in Names |-> 0]
    /\ unserved = {}
    /\ lost = {}
    /\ watcher_config = base_watcher_config

Init ==
    /\ InitScheduler
    /\ prep = [pc |-> "idle"]

\* ------------------------------------------------------------- environment
\* A client sends an InvokeRequest on req_tx (the Sender init_scheduler
\* returned).  The send fails once the receiver is dropped.
Invoke(f) ==
    /\ sent < MaxRequests
    /\ loop_running
    /\ Len(req_rx) < ReqCapacity
    /\ sent' = sent + 1
    /\ req_rx' = Append(req_rx, [function_name |-> f, id |-> sent + 1])
    /\ UNCHANGED <<only_lambda_apis, cache, apis, sched, shutdown, gc_rx, wx_rx,
                   wx_cur, runners, events, cleans, unserved, lost, watcher_config, prep>>

\* The root shutdown signal is raised.
RaiseShutdown ==
    /\ ~shutdown
    /\ shutdown' = TRUE
    /\ UNCHANGED <<only_lambda_apis, req_rx, sent, cache, apis, sched, gc_rx, wx_rx,
                   wx_cur, runners, events, cleans, unserved, lost, watcher_config, prep>>

\* --------------------------------------------------------------- scheduler
\* Mutant of recv_req: pending requests are handled in any order.
recv_req_any_order ==
    /\ loop_running
    /\ req_rx /= <<>>
    /\ \E i \in 1..Len(req_rx) :
        LET req == req_rx[i]
            result == upsert(cache, apis, req)
        IN /\ req_rx' = SubSeq(req_rx, 1, i - 1) \o SubSeq(req_rx, i + 1, Len(req_rx))
           /\ IF result.err
              THEN /\ sched' = "failed"
                   /\ UNCHANGED <<cache, apis, runners, unserved>>
              ELSE /\ sched' = sched
                   /\ cache' = result.cache
                   /\ apis' = IF result.directive /= <<>> THEN apis + 1 ELSE apis
                   /\ unserved' = IF LiveProcess(req.function_name)
                                  THEN unserved
                                  ELSE unserved \cup {req.id}
                   /\ runners' = runners \o launch(result.directive, only_lambda_apis)
    /\ UNCHANGED <<only_lambda_apis, sent, shutdown, gc_rx, wx_rx, wx_cur, events,
                   cleans, lost, watcher_config, prep>>

\* Mutant of recv_req: the loop itself waits until the construction of the
\* runners already launched is over before it takes the next request.
recv_req_after_construction ==
    /\ loop_running
    /\ req_rx /= <<>>
    /\ \A r \in Runners : runners[r].pc \notin {"send_wx", "recv_wx"}
    /\ LET req == Head(req_rx)
           result == upsert(cache, apis, req)
       IN /\ req_rx' = Tail(req_rx)
          /\ IF result.err
             THEN /\ sched' = "failed"
                  /\ UNCHANGED <<cache, apis, runners, unserved>>
             ELSE /\ sched' = sched
                  /\ cache' = result.cache
                  /\ apis' = IF result.directive /= <<>> THEN apis + 1 ELSE apis
                  /\ unserved' = IF LiveProcess(req.function_name)
                                 THEN unserved
                                 ELSE unserved \cup {req.id}
                  /\ runners' = runners \o launch(result.directive, only_lambda_apis)
    /\ UNCHANGED <<only_lambda_apis, sent, shutdown, gc_rx, wx_rx, wx_cur, events,
                   cleans, lost, watcher_config, prep>>

\* Some(req) = req_rx.recv() => upsert(req)?; launch a runner on a directive.
recv_req ==
    /\ loop_running
    /\ req_rx /= <<>>
    /\ LET req == Head(req_rx)
           result == upsert(cache, apis, req)
       IN /\ req_rx' = Tail(req_rx)
          /\ IF result.err
             THEN /\ sched' = "failed"
                  /\ UNCHANGED <<cache, apis, runners, unserved>>
             ELSE /\ sched' = sched
                  /\ cache' = result.cache
                  /\ apis' = IF result.directive /= <<>> THEN apis + 1 ELSE apis
                  /\ unserved' = IF LiveProcess(req.function_name)
                                 THEN unserved
                                 ELSE unserved \cup {req.id}
                  /\ runners' = runners \o launch(result.directive, only_lambda_apis)
    /\ UNCHANGED <<only_lambda_apis, sent, shutdown, gc_rx, wx_rx, wx_cur, events,
                   cleans, lost, watcher_config, prep>>

\* Mutant of recv_gc: the whole cache is cleared.
recv_gc_clearing_cache ==
    /\ loop_running
    /\ gc_rx /= <<>>
    /\ LET gc == Head(gc_rx)
           dropped == QueuedIdsOf(cache)
       IN /\ gc_rx' = Tail(gc_rx)
          /\ cache' = <<>>
          /\ cleans' = [cleans EXCEPT ![gc] = @ + 1]
          /\ lost' = lost \cup (dropped \cap unserved)
          /\ unserved' = unserved \ dropped
    /\ UNCHANGED <<only_lambda_apis, req_rx, sent, apis, sched, shutdown, wx_rx,
                   wx_cur, runners, events, watcher_config, prep>>

\* Some(gc) = gc_rx.recv() => clean(&gc)
recv_gc ==
    /\ loop_running
    /\ gc_rx /= <<>>
    /\ LET gc == Head(gc_rx)
           dropped == IF gc \in DOMAIN cache
                      THEN {cache[gc].queue[i] : i \in 1..Len(cache[gc].queue)}
                      ELSE {}
       IN /\ gc_rx' = Tail(gc_rx)
          /\ cache' = clean(cache, gc)
          /\ cleans' = [cleans EXCEPT ![gc] = @ + 1]
          /\ lost' = lost \cup (dropped \cap unserved)
          /\ unserved' = unserved \ dropped
    /\ UNCHANGED <<only_lambda_apis, req_rx, sent, apis, sched, shutdown, wx_rx,
                   wx_cur, runners, events, watcher_config, prep>>

\* _ = subsys.on_shutdown_requested() => return Ok(())
on_shutdown ==
    /\ loop_running
    /\ shutdown
    /\ sched' = "stopped"
    /\ UNCHANGED <<only_lambda_apis, req_rx, sent, cache, apis, shutdown, gc_rx,
                   wx_rx, wx_cur, runners, events, cleans, unserved, lost, watcher_config, prep>>

\* ------------------------------------------------------ construction worker
\* Mutant of worker_recv: the newest request is taken first.
worker_recv_newest ==
    /\ wx_cur = NoReq
    /\ wx_rx /= <<>>
    /\ wx_cur' = wx_rx[Len(wx_rx)]
    /\ wx_rx' = SubSeq(wx_rx, 1, Len(wx_rx) - 1)
    /\ UNCHANGED <<only_lambda_apis, req_rx, sent, cache, apis, sched, shutdown, gc_rx,
                   runners, events, cleans, unserved, lost, watcher_config, prep>>

\* while let Some((tx, cmd, watcher_config, ext_cache)) = wx_rx.recv().await
worker_recv ==
    /\ wx_cur = NoReq
    /\ wx_rx /= <<>>
    /\ wx_cur' = Head(wx_rx)
    /\ wx_rx' = Tail(wx_rx)
    /\ UNCHANGED <<only_lambda_apis, req_rx, sent, cache, apis, sched, shutdown, gc_rx,
                   runners, events, cleans, unserved, lost, watcher_config, prep>>

\* let wx = crate::watcher::new(cmd, watcher_config, ext_cache).await;
\* let _ = tx.send(wx);     (wx is Ok(Watchexec) or Err(ServerError))
worker_reply(wx) ==
    /\ wx_cur /= NoReq
    /\ runners' = [runners EXCEPT ![wx_cur.tx].rx = wx,
                                  ![wx_cur.tx].wx = Some([cmd |-> wx_cur.cmd,
                                                          watcher_config |-> wx_cur.watcher_config])]
    /\ wx_cur' = NoReq
    /\ UNCHANGED <<only_lambda_apis, req_rx, sent, cache, apis, sched, shutdown, gc_rx,
                   wx_rx, events, cleans, unserved, lost, watcher_config, prep>>

\* Mutant of send_wx: the runner sets the fields in the scheduler's
\* watcher_config instead of in its clone.
send_wx_shared_config(r) ==
    /\ runners[r].pc = "send_wx"
    /\ Len(wx_rx) < WxCapacity
    /\ LET cmd == cargo_command(runners[r].name, default_cargo_options)
           config == set_runtime_api(
                         set_name(set_bin_name(watcher_config, runners[r].name),
                                  runners[r].name),
                         runners[r].api)
       IN /\ wx_rx' = Append(wx_rx, [tx |-> r, cmd |-> cmd, watcher_config |-> config])
          /\ runners' = [runners EXCEPT ![r].pc = "recv_wx",
                                        ![r].watcher_config = config]
          /\ watcher_config' = config
    /\ UNCHANGED <<only_lambda_apis, req_rx, sent, cache, apis, sched, shutdown, gc_rx,
                   wx_cur, events, cleans, unserved, lost, prep>>

\* --------------------------------------------------------- Function Runner
\* cargo_command, the watcher_config fields, oneshot::channel() and
\* wx_tx.send((tx, cmd, watcher_config, ext_cache)).await
send_wx(r) ==
    /\ runners[r].pc = "send_wx"
    /\ Len(wx_rx) < WxCapacity
    /\ LET cmd == cargo_command(runners[r].name, default_cargo_options)
           config == set_runtime_api(
                         set_name(set_bin_name(runners[r].watcher_config, runners[r].name),
                                  runners[r].name),
                         runners[r].api)
       IN /\ wx_rx' = Append(wx_rx, [tx |-> r, cmd |-> cmd, watcher_config |-> config])
          /\ runners' = [runners EXCEPT ![r].pc = "recv_wx",
                                        ![r].watcher_config = config]
    /\ UNCHANGED <<only_lambda_apis, req_rx, sent, cache, apis, sched, shutdown, gc_rx,
                   wx_cur, events, cleans, unserved, lost, watcher_config, prep>>

\* Mutant of recv_wx: a failed construction falls through to the shutdown
\* notification.
recv_wx_notifying_on_error(r) ==
    /\ runners[r].pc = "recv_wx"
    /\ runners[r].rx /= "empty"
    /\ IF runners[r].rx = "ok"
       THEN /\ runners' = [runners EXCEPT ![r].pc = "select", ![r].proc = "live"]
            /\ unserved' = IF runners[r].name \in DOMAIN cache
                           THEN unserved \
                                {cache[runners[r].name].queue[i] :
                                    i \in 1..Len(cache[runners[r].name].queue)}
                           ELSE unserved
       ELSE /\ runners' = [runners EXCEPT ![r].pc = "send_event"]
            /\ unserved' = unserved
    /\ UNCHANGED <<only_lambda_apis, req_rx, sent, cache, apis, sched, shutdown, gc_rx,
                   wx_rx, wx_cur, events, cleans, lost, watcher_config, prep>>

\* let wx = rx.blocking_recv()??;   Err returns from start_function, Ok enters
\* the select with the supervisor's process family running.
recv_wx(r) ==
    /\ runners[r].pc = "recv_wx"
    /\ runners[r].rx /= "empty"
    /\ IF runners[r].rx = "ok"
       THEN /\ runners' = [runners EXCEPT ![r].pc = "select", ![r].proc = "live"]
            /\ unserved' = IF runners[r].name \in DOMAIN cache
                           THEN unserved \
                                {cache[runners[r].name].queue[i] :
                                    i \in 1..Len(cache[runners[r].name].queue)}
                           ELSE unserved
       ELSE /\ runners' = [runners EXCEPT ![r].pc = "failed"]
            /\ unserved' = unserved
    /\ UNCHANGED <<only_lambda_apis, req_rx, sent, cache, apis, sched, shutdown, gc_rx,
                   wx_rx, wx_cur, events, cleans, lost, watcher_config, prep>>

\* The process family behind wx.main() terminates (crash, exit, rebuild loop
\* gave up): the future wx.main() becomes ready.
main_ends(r) ==
    /\ runners[r].pc = "select"
    /\ runners[r].proc = "live"
    /\ runners' = [runners EXCEPT ![r].proc = "ended"]
    /\ UNCHANGED <<only_lambda_apis, req_rx, sent, cache, apis, sched, shutdown, gc_rx,
                   wx_rx, wx_cur, events, cleans, unserved, lost, watcher_config, prep>>

\* Mutant of select_main: the branch is taken while the process still runs.
select_main_early(r) ==
    /\ runners[r].pc = "select"
    /\ runners' = [runners EXCEPT ![r].pc = "gc_send", ![r].branch = "main"]
    /\ UNCHANGED <<only_lambda_apis, req_rx, sent, cache, apis, sched, shutdown, gc_rx,
                   wx_rx, wx_cur, events, cleans, unserved, lost, watcher_config, prep>>

\* select! takes the branch  _ = wx.main() => { gc_tx.send(name.clone()).await ... }
select_main(r) ==
    /\ runners[r].pc = "select"
    /\ runners[r].proc = "ended"
    /\ runners' = [runners EXCEPT ![r].pc = "gc_send", ![r].branch = "main"]
    /\ UNCHANGED <<only_lambda_apis, req_rx, sent, cache, apis, sched, shutdown, gc_rx,
                   wx_rx, wx_cur, events, cleans, unserved, lost, watcher_config, prep>>

\* Mutant of select_shutdown: the shutdown branch also reports to gc_tx.
select_shutdown_with_gc(r) ==
    /\ runners[r].pc = "select"
    /\ shutdown
    /\ runners' = [runners EXCEPT ![r].pc = "gc_send", ![r].branch = "shutdown"]
    /\ UNCHANGED <<only_lambda_apis, req_rx, sent, cache, apis, sched, shutdown, gc_rx,
                   wx_rx, wx_cur, events, cleans, unserved, lost, watcher_config, prep>>

\* Mutant of select_shutdown: the runner waits for wx.main() alone.
select_shutdown_ignored(r) ==
    /\ runners[r].pc = "select"
    /\ shutdown
    /\ FALSE
    /\ UNCHANGED vars

\* select! takes the branch  _ = subsys.on_shutdown_requested() => { info!(..) }
select_shutdown(r) ==
    /\ runners[r].pc = "select"
    /\ shutdown
    /\ runners' = [runners EXCEPT ![r].pc = "send_event", ![r].branch = "shutdown"]
    /\ UNCHANGED <<only_lambda_apis, req_rx, sent, cache, apis, sched, shutdown, gc_rx,
                   wx_rx, wx_cur, events, cleans, unserved, lost, watcher_config, prep>>

\* Mutant of gc_send: a failed send is returned with `?`.
gc_send_propagating_error(r) ==
    /\ runners[r].pc = "gc_send"
    /\ IF loop_running
       THEN /\ Len(gc_rx) < GcCapacity
            /\ gc_rx' = Append(gc_rx, runners[r].name)
            /\ runners' = [runners EXCEPT ![r].pc = "send_event",
                                          ![r].gc_sent = Append(@, runners[r].name)]
       ELSE /\ gc_rx' = gc_rx
            /\ runners' = [runners EXCEPT ![r].pc = "failed",
                                          ![r].gc_sent = Append(@, runners[r].name),
                                          ![r].gc_err = TRUE]
    /\ UNCHANGED <<only_lambda_apis, req_rx, sent, cache, apis, sched, shutdown,
                   wx_rx, wx_cur, events, cleans, unserved, lost, watcher_config, prep>>

\* Mutant of gc_send: the runner removes its function's entry itself.
gc_send_cleaning_cache(r) ==
    /\ runners[r].pc = "gc_send"
    /\ cache' = clean(cache, runners[r].name)
    /\ runners' = [runners EXCEPT ![r].pc = "send_event",
                                  ![r].gc_sent = Append(@, runners[r].name)]
    /\ UNCHANGED <<only_lambda_apis, req_rx, sent, apis, sched, shutdown, gc_rx,
                   wx_rx, wx_cur, events, cleans, unserved, lost, watcher_config, prep>>

\* if let Err(err) = gc_tx.send(name.clone()).await { error!(..) }
\* The send waits for room in the channel and fails (logged) when the
\* scheduler has dropped gc_rx.  gc_sent records the value handed to send.
gc_send(r) ==
    /\ runners[r].pc = "gc_send"
    /\ IF loop_running
       THEN /\ Len(gc_rx) < GcCapacity
            /\ gc_rx' = Append(gc_rx, runners[r].name)
            /\ runners' = [runners EXCEPT ![r].pc = "send_event",
                                          ![r].gc_sent = Append(@, runners[r].name)]
       ELSE /\ gc_rx' = gc_rx
            /\ runners' = [runners EXCEPT ![r].pc = "send_event",
                                          ![r].gc_sent = Append(@, runners[r].name),
                                          ![r].gc_err = TRUE]
    /\ UNCHANGED <<only_lambda_apis, req_rx, sent, cache, apis, sched, shutdown,
                   wx_rx, wx_cur, events, cleans, unserved, lost, watcher_config, prep>>

\* Mutant of send_event: only the process-ended branch broadcasts.
send_event_main_only(r) ==
    /\ runners[r].pc = "send_event"
    /\ events' = IF runners[r].branch = "main"
                 THEN Append(events, [runner |-> r, kind |-> "Shutdown",
                                      reason |-> shutdown_reason(runners[r].name)])
                 ELSE events
    /\ runners' = [runners EXCEPT ![r].pc = "done"]
    /\ UNCHANGED <<only_lambda_apis, req_rx, sent, cache, apis, sched, shutdown, gc_rx,
                   wx_rx, wx_cur, cleans, unserved, lost, watcher_config, prep>>

\* let event = NextEvent::shutdown(&format!("{name} function shutting down"));
\* ext_cache.send_event(event).await     and start_function returns.
send_event(r) ==
    /\ runners[r].pc = "send_event"
    /\ events' = Append(events, [runner |-> r, kind |-> "Shutdown",
                                 reason |-> shutdown_reason(runners[r].name)])
    /\ runners' = [runners EXCEPT ![r].pc = "done"]
    /\ UNCHANGED <<only_lambda_apis, req_rx, sent, cache, apis, sched, shutdown, gc_rx,
                   wx_rx, wx_cur, cleans, unserved, lost, watcher_config, prep>>

\* ---------------------------------------------------------- specifications
start_scheduler ==
    \/ recv_req
    \/ recv_gc
    \/ on_shutdown

worker ==
    \/ worker_recv
    \/ \E wx \in {"ok", "err"} : worker_reply(wx)

start_function(r) ==
    \/ send_wx(r)
    \/ recv_wx(r)
    \/ select_main(r)
    \/ select_shutdown(r)
    \/ gc_send(r)
    \/ send_event(r)

Next ==
    \/ \E f \in Names : Invoke(f)
    \/ RaiseShutdown
    \/ start_scheduler
    \/ worker
    \/ \E r \in Runners : send_wx(r)
    \/ \E r \in Runners : recv_wx(r)
    \/ \E r \in Runners : select_main(r)
    \/ \E r \in Runners : select_shutdown(r)
    \/ \E r \in Runners : gc_send(r)
    \/ \E r \in Runners : send_event(r)
    \/ \E r \in Runners : main_ends(r)

Spec == Init /\ [][Next]_vars

\* ------------------------------------------- start_function, lines 100-107
\* One call start_function(name, runtime_api, cargo_options, watcher_config)
\* followed statement by statement until the construction request is ready;
\* its arguments are drawn from these sets.
PrepNames == {"", "_", "__", "hello", "world"}
PrepFeatures == {None, Some("tls"), Some("--bin")}
PrepApis == {1, 2}

PrepInit ==
    /\ InitScheduler
    /\ prep \in [pc : {"command"},
                 name : PrepNames,
                 runtime_api : PrepApis,
                 cargo_options : [features : PrepFeatures, release : BOOLEAN],
                 cmd : {None},
                 watcher_config : {base_watcher_config}]

PrepUnchanged ==
    UNCHANGED <<only_lambda_apis, req_rx, sent, cache, apis, sched, shutdown, gc_rx,
                wx_rx, wx_cur, runners, events, cleans, unserved, lost, watcher_config>>

\* let cmd = cargo_command(&name, &cargo_options);
prep_command ==
    /\ prep.pc = "command"
    /\ prep' = [prep EXCEPT !.pc = "bin_name",
                            !.cmd = Some(cargo_command(prep.name, prep.cargo_options))]
    /\ PrepUnchanged

\* watcher_config.bin_name = if is_valid_bin_name(&name) { .. } else { None };
prep_bin_name ==
    /\ prep.pc = "bin_name"
    /\ prep' = [prep EXCEPT !.pc = "name",
                            !.watcher_config = set_bin_name(@, prep.name)]
    /\ PrepUnchanged

\* watcher_config.name = name.clone();
prep_name ==
    /\ prep.pc = "name"
    /\ prep' = [prep EXCEPT !.pc = "runtime_api",
                            !.watcher_config = set_name(@, prep.name)]
    /\ PrepUnchanged

\* watcher_config.runtime_api = runtime_api;
prep_runtime_api ==
    /\ prep.pc = "runtime_api"
    /\ prep' = [prep EXCEPT !.pc = "send",
                            !.watcher_config = set_runtime_api(@, prep.runtime_api)]
    /\ PrepUnchanged

PrepNext ==
    \/ prep_command
    \/ prep_bin_name
    \/ prep_name
    \/ prep_runtime_api

PrepSpec == PrepInit /\ [][PrepNext]_vars

\* The tasks are scheduled fairly (tokio polls every ready task, select! picks
\* among its ready branches at random) and every construction the worker
\* started replies; clients, process exits and the shutdown signal are free.
Fairness ==
    /\ WF_vars(recv_req)
    /\ WF_vars(recv_gc)
    /\ WF_vars(on_shutdown)
    /\ WF_vars(worker)
    /\ \A r \in 1..MaxRequests : WF_vars(r \in Runners /\ start_function(r))

FairSpec == Spec /\ Fairness

\* ------------------------------------------------------------------ claims
RunnersOf(f) == {r \in Runners : runners[r].name = f}

EventsOf(r) == SelectSeq(events, LAMBDA e : e.runner = r)

QueuedIds == UNION {{cache[f].queue[i] : i \in 1..Len(cache[f].queue)} : f \in DOMAIN cache}

\* C1: a Function Runner for f is launched only by the handling of an
\* invocation of f that finds f without a cache entry (the spawn directive);
\* the entry then stays until clean(f) runs, so no later invocation of f
\* launches a runner before that; at any time at most one runner per function
\* name has its backing process starting or running.
C1_SpawnOnlyOnDirective ==
    /\ [](\A f \in Names :
            /\ Cardinality({r \in RunnersOf(f) : Alive(r)}) <= 1
            /\ Cardinality(RunnersOf(f)) <= cleans[f] + 1
            /\ (\E r \in RunnersOf(f) : Alive(r)) => f \in DOMAIN cache)
    /\ [][/\ runners' /= runners /\ Len(runners') /= Len(runners) =>
               /\ Len(runners') = Len(runners) + 1
               /\ req_rx /= <<>>
               /\ Head(req_rx).function_name \notin DOMAIN cache
               /\ Head(req_rx).function_name \in DOMAIN cache'
               /\ runners'[Len(runners')].name = Head(req_rx).function_name
               /\ runners'[Len(runners')].api = cache'[Head(req_rx).function_name].api
          /\ \A f \in DOMAIN cache :
               f \notin DOMAIN cache' =>
                   gc_rx /= <<>> /\ Head(gc_rx) = f /\ cleans'[f] = cleans[f] + 1]_vars

\* C1 witness: a function was restarted after clean, and a later invocation
\* of it was only enqueued.
C1_Witness ==
    \E f \in DOMAIN cache :
        /\ Cardinality(RunnersOf(f)) = 2
        /\ cleans[f] = 1
        /\ Len(cache[f].queue) = 2

\* C2: no request the scheduler upserted is removed by clean before a live
\* process of its function existed while it was queued.
C2_NoInvocationLost == lost = {}

\* C3: a runner that took the shutdown branch of the race handed nothing to
\* gc_tx.send; one that took the process-ended branch handed exactly one
\* value to gc_tx.send, its own function name, and the scheduler receives it
\* unless it had already returned; a runner takes one branch only and keeps it.
C3_GcPerBranch ==
    /\ [](\A r \in Runners :
            /\ runners[r].branch \in {"none", "shutdown"} =>
                   runners[r].gc_sent = <<>> /\ ~runners[r].gc_err
            /\ runners[r].branch = "main" /\ runners[r].pc /= "gc_send" =>
                   runners[r].gc_sent = <<runners[r].name>>
            /\ runners[r].branch = "main" /\ runners[r].pc = "gc_send" =>
                   runners[r].gc_sent = <<>>
            /\ runners[r].pc = "gc_send" => runners[r].branch = "main"
            /\ runners[r].pc \in {"send_event", "done"} =>
                   runners[r].branch \in {"main", "shutdown"}
            /\ runners[r].gc_err => ~loop_running)
    /\ [][\A r \in Runners :
            /\ runners[r].branch /= "none" => runners'[r].branch = runners[r].branch
            /\ (runners[r].gc_sent = <<>> /\ runners'[r].gc_sent /= <<>>
                    /\ ~runners'[r].gc_err) =>
                   gc_rx' = Append(gc_rx, runners[r].name)]_vars

\* C3 witness: one runner left the race by each branch.
C3_Witness ==
    \E r, q \in Runners :
        /\ runners[r].pc = "done" /\ runners[r].branch = "main"
        /\ runners[r].gc_sent = <<runners[r].name>>
        /\ runners[q].pc = "done" /\ runners[q].branch = "shutdown"

\* C4: a runner that has exited after its race has broadcast exactly one
\* Shutdown event, with reason "<name> function shutting down"; a runner that
\* has not exited has broadcast none; in the process-ended branch the
\* garbage-collect send was attempted before the broadcast.
C4_OneShutdownEvent ==
    \A r \in Runners :
        /\ runners[r].pc = "done" =>
               /\ Len(EventsOf(r)) = 1
               /\ EventsOf(r)[1].kind = "Shutdown"
               /\ EventsOf(r)[1].reason = runners[r].name \o " function shutting down"
               /\ runners[r].branch \in {"main", "shutdown"}
        /\ runners[r].pc /= "done" => EventsOf(r) = <<>>
        /\ (EventsOf(r) /= <<>> /\ runners[r].branch = "main") =>
               Len(runners[r].gc_sent) = 1

\* C4 witness: runners of both branches have exited, one of them after a
\* failed garbage-collect send.
C4_Witness ==
    \E r, q \in Runners :
        /\ runners[r].pc = "done" /\ runners[r].branch = "main" /\ runners[r].gc_err
        /\ runners[q].pc = "done" /\ runners[q].branch = "shutdown"
        /\ Len(events) = 2

\* The scheduler has handled the garbage-collect message of runner r: clean
\* ran for r's function once for r and once for every earlier runner of it.
Cleaned(r) ==
    /\ r \in Runners
    /\ cleans[runners[r].name] >=
           Cardinality({q \in 1..r : runners[q].name = runners[r].name})

\* C5: when the backing process of a runner's function has ended and no
\* shutdown is requested, clean runs for that runner's function (unless a
\* shutdown is requested meanwhile).
C5_CrashLeadsToClean ==
    \A r \in 1..MaxRequests :
        (r \in Runners /\ runners[r].proc = "ended" /\ ~shutdown)
            ~> (shutdown \/ Cleaned(r))

\* The same, allowing for a scheduler that returned with a cache error.
CrashLeadsToCleanUnlessFailed ==
    \A r \in 1..MaxRequests :
        (r \in Runners /\ runners[r].proc = "ended" /\ ~shutdown)
            ~> (shutdown \/ sched = "failed" \/ Cleaned(r))

\* After clean(f) the next invocation of f yields a spawn directive and (when
\* runners are launched at all) a fresh runner.
RestartAfterClean ==
    [][(recv_req /\ sched' = "running"
            /\ Head(req_rx).function_name \notin DOMAIN cache) =>
          /\ apis' = apis + 1
          /\ ~only_lambda_apis =>
                 /\ Len(runners') = Len(runners) + 1
                 /\ runners'[Len(runners')].name = Head(req_rx).function_name
                 /\ runners'[Len(runners')].pc = "send_wx"]_vars

\* C6: a function whose runner returned with a construction error has no
\* cache entry.
C6_FailedConstructionLeavesNoEntry ==
    \A r \in Runners :
        runners[r].pc = "failed" => runners[r].name \notin DOMAIN cache

\* C7: the scheduler loop has stopped only if the shutdown signal was raised.
C7_StopsOnlyOnShutdown == ~loop_running => shutdown

\* A runner's error alone never stops the loop: the loop leaves "running"
\* only by handling a request or the shutdown signal.
RunnerErrorsKeepLoop ==
    [][sched' /= sched => (recv_req \/ on_shutdown)]_vars

\* C8: with only_lambda_apis set no runner is ever launched, while every
\* request the scheduler received without a cache error is in the cache;
\* with it unset there is exactly one runner per spawn directive.
C8_OnlyLambdaApis ==
    /\ only_lambda_apis =>
           /\ runners = <<>>
           /\ Cardinality(QueuedIds) + Len(req_rx)
                  + (IF sched = "failed" THEN 1 ELSE 0) = sent
    /\ ~only_lambda_apis =>
           /\ Len(runners) = apis
           /\ \A r \in Runners : runners[r].api = r

\* C8 witness: in only-control-plane mode two functions have been invoked,
\* one of them twice, and all three requests sit in the cache.
C8_Witness ==
    /\ only_lambda_apis
    /\ apis = 2
    /\ Cardinality(QueuedIds) = 3
    /\ runners = <<>>

\* C9: once the shutdown signal is raised, the scheduler loop returns and
\* every runner launched has left start_function.
C9_ShutdownTerminates ==
    shutdown ~> (/\ ~loop_running
                 /\ \A r \in Runners : runners[r].pc \in {"done", "failed"})

\* C9 witness: the scheduler returned on shutdown and a runner that was still
\* waiting for its construction reply when the loop returned has exited
\* through the shutdown branch.
C9_Witness ==
    /\ sched = "stopped"
    /\ \E r \in Runners : runners[r].pc = "recv_wx"
    /\ \E r \in Runners : runners[r].pc = "done" /\ runners[r].branch = "shutdown"

\* C10: after the scheduler has handled the shutdown event the cache is
\* never changed (no upsert, no clean), no runner is launched and nothing is
\* taken from or accepted on its channels.
C10_NoWorkAfterShutdown ==
    [][sched = "stopped" =>
          /\ sched' = "stopped"
          /\ cache' = cache
          /\ apis' = apis
          /\ cleans' = cleans
          /\ Len(runners') = Len(runners)
          /\ req_rx' = req_rx
          /\ gc_rx' = gc_rx]_vars

\* C10 witness: the scheduler returned on shutdown while a request and a
\* garbage-collect message were pending.
C10_Witness ==
    /\ sched = "stopped"
    /\ req_rx /= <<>>
    /\ gc_rx /= <<>>

\* The command selects a binary: "--bin" followed by the name.
HasBinSelector(args, name) ==
    \E i \in 1..(Len(args) - 1) : args[i] = "--bin" /\ args[i + 1] = name

\* C15: the start command carries "--bin" followed by the function name
\* exactly when the name is neither empty nor the default-package sentinel;
\* for those two names it ends without a selector.
C15_BinSelector ==
    prep.pc /= "idle" /\ prep.cmd /= None =>
        LET args == prep.cmd[1].args
        IN /\ HasBinSelector(args, prep.name) <=> prep.name \notin {"", "_"}
           /\ prep.name \in {"", "_"} =>
                  /\ args[Len(args)] /= prep.name
                  /\ Len(args) = 1 + (IF prep.cargo_options.features /= None THEN 2 ELSE 0)
                                   + (IF prep.cargo_options.release THEN 1 ELSE 0)
           /\ prep.name \notin {"", "_"} =>
                  /\ args[Len(args) - 1] = "--bin"
                  /\ args[Len(args)] = prep.name

\* C15 witness: the command of the sentinel name was built, with features
\* and --release, and the command of an ordinary name was not the one built.
C15_Witness ==
    /\ prep.pc = "bin_name"
    /\ prep.name = "_"
    /\ prep.cargo_options = [features |-> Some("--bin"), release |-> TRUE]
    /\ prep.cmd = Some([prog |-> "cargo",
                        args |-> <<"run", "--features", "--bin", "--release">>])

\* C19: once both decisions are taken, bin_name is Some(name) exactly when
\* the command carries "--bin name", and None exactly when it carries no
\* binary selector.
C19_BinNameAgrees ==
    prep.pc \in {"name", "runtime_api", "send"} =>
        LET args == prep.cmd[1].args
            bin_name == prep.watcher_config.bin_name
        IN /\ bin_name \in {None, Some(prep.name)}
           /\ bin_name = Some(prep.name) <=> HasBinSelector(args, prep.name)
           /\ bin_name = None <=> ~HasBinSelector(args, prep.name)
           /\ bin_name = None <=> (\A i \in 1..Len(args) : args[i] = "--bin" =>
                                       i > 1 /\ args[i - 1] = "--features")

\* C19 witness: the request for "hello" is ready, with a selector and
\* Some("hello").
C19_Witness ==
    /\ prep.pc = "send"
    /\ prep.name = "hello"
    /\ prep.watcher_config.bin_name = Some("hello")
    /\ prep.cmd[1].args = <<"run", "--bin", "hello">>

\* The construction requests of runner r that are waiting or being built.
InFlight(r) ==
    Cardinality({i \in 1..Len(wx_rx) : wx_rx[i].tx = r})
        + (IF wx_cur.tx = r THEN 1 ELSE 0)

\* C11: the worker takes the oldest request of its channel, only when it is
\* building none; it answers on the one-shot channel of the request it is
\* building, with the result built from that request's command and config,
\* and no other channel changes; a channel is answered once and then its
\* request is gone, and an unanswered waiting runner has exactly one request.
C11_WorkerInOrder ==
    /\ [](\A r \in Runners :
            /\ InFlight(r) <= 1
            /\ runners[r].pc = "send_wx" =>
                   InFlight(r) = 0 /\ runners[r].rx = "empty"
            /\ (runners[r].pc = "recv_wx" /\ runners[r].rx = "empty") => InFlight(r) = 1
            /\ runners[r].rx = "empty" <=> runners[r].wx = None
            /\ runners[r].rx /= "empty" =>
                   /\ InFlight(r) = 0
                   /\ runners[r].wx =
                          Some([cmd |-> cargo_command(runners[r].name, default_cargo_options),
                                watcher_config |-> runners[r].watcher_config])
                   /\ runners[r].wx[1].watcher_config.name = runners[r].name)
    /\ [][/\ wx_rx' /= wx_rx =>
               \/ /\ Len(wx_rx') = Len(wx_rx) + 1
                  /\ SubSeq(wx_rx', 1, Len(wx_rx)) = wx_rx
                  /\ wx_cur' = wx_cur
               \/ /\ wx_cur = NoReq
                  /\ wx_cur' = Head(wx_rx)
                  /\ wx_rx' = Tail(wx_rx)
          /\ wx_cur' /= wx_cur /\ wx_cur /= NoReq =>
               /\ wx_cur' = NoReq
               /\ runners[wx_cur.tx].rx = "empty"
               /\ runners'[wx_cur.tx].rx \in {"ok", "err"}
               /\ runners'[wx_cur.tx].wx =
                      Some([cmd |-> wx_cur.cmd, watcher_config |-> wx_cur.watcher_config])
          /\ \A r \in Runners :
               /\ runners[r].rx /= "empty" =>
                      runners'[r].rx = runners[r].rx /\ runners'[r].wx = runners[r].wx
               /\ runners'[r].rx /= runners[r].rx => wx_cur.tx = r]_vars

\* C11 witness: one request has been answered, the next is being built and a
\* third one waits in the channel.
C11_Witness ==
    /\ \E r \in Runners : runners[r].rx /= "empty"
    /\ wx_cur /= NoReq
    /\ wx_rx /= <<>>

\* Runner r waits for its Process Supervisor: it has not yet enqueued its
\* construction request, or it is waiting for the reply.
AwaitsConstruction(r) ==
    /\ runners[r].pc \in {"send_wx", "recv_wx"}
    /\ runners[r].rx = "empty"

TasksUntouched ==
    /\ wx_rx' = wx_rx
    /\ wx_cur' = wx_cur
    /\ events' = events
    /\ SubSeq(runners', 1, Len(runners)) = runners

\* C13: the cache changes only in a step of the scheduler loop, which handles
\* exactly one event: it takes one request from req_rx (upsert) or one name
\* from gc_rx (clean), never both, and no runner or worker step is part of
\* it; steps of runners and of the worker leave the cache as it is.
C13_SingleWriter ==
    [][/\ cache' /= cache =>
            /\ loop_running
            /\ TasksUntouched
            /\ \/ /\ req_rx /= <<>> /\ req_rx' = Tail(req_rx) /\ gc_rx' = gc_rx
                  /\ cache' = upsert(cache, apis, Head(req_rx)).cache
                  /\ cleans' = cleans
               \/ /\ gc_rx /= <<>> /\ gc_rx' = Tail(gc_rx) /\ req_rx' = req_rx
                  /\ cache' = clean(cache, Head(gc_rx))
                  /\ apis' = apis
       /\ (\E r \in Runners : runners'[r] /= runners[r]) => cache' = cache
       /\ (wx_rx' /= wx_rx \/ wx_cur' /= wx_cur \/ events' /= events) => cache' = cache
       /\ ~(req_rx /= <<>> /\ req_rx' = Tail(req_rx) /\ gc_rx /= <<>> /\ gc_rx' = Tail(gc_rx))
      ]_vars

\* C13 witness: the cache has been written by upserts and by a clean while
\* the worker was building and the runner that asked for the clean was still
\* running.
C13_Witness ==
    /\ \E f \in Names : cleans[f] = 1 /\ f \notin DOMAIN cache
    /\ DOMAIN cache /= {}
    /\ wx_cur /= NoReq
    /\ \E r \in Runners : runners[r].pc = "send_event" /\ runners[r].branch = "main"

Increasing(q) == \A i, j \in 1..Len(q) : i < j => q[i] < q[j]

\* C14: request ids count the sends on the ingress channel.  The channel
\* and every queue of the cache hold their requests in that order, what is
\* queued for f was sent before what still waits for f in the channel, each
\* handled request goes to the end of the queue of its own function, and a
\* function that was never cleaned got exactly one spawn directive.
C14_SubmissionOrder ==
    /\ [](/\ Increasing([i \in 1..Len(req_rx) |-> req_rx[i].id])
          /\ \A f \in DOMAIN cache :
               /\ cache[f].queue /= <<>>
               /\ Increasing(cache[f].queue)
               /\ \A i \in 1..Len(req_rx) :
                      req_rx[i].function_name = f =>
                          cache[f].queue[Len(cache[f].queue)] < req_rx[i].id
               /\ (cleans[f] = 0 /\ ~only_lambda_apis) =>
                      Cardinality(RunnersOf(f)) = 1)
    /\ [][(req_rx /= <<>> /\ req_rx' = Tail(req_rx) /\ sched' = "running") =>
             LET f == Head(req_rx).function_name
             IN /\ f \in DOMAIN cache'
                /\ cache'[f].queue =
                       (IF f \in DOMAIN cache THEN cache[f].queue ELSE <<>>)
                           \o <<Head(req_rx).id>>
                /\ \A g \in DOMAIN cache' \ {f} :
                       g \in DOMAIN cache /\ cache'[g] = cache[g]]_vars

\* C14 witness: three requests for "hello" were submitted before it started:
\* one directive, one runner, which has not yet asked for its supervisor,
\* and the queue holds the three in order.
C14_Witness ==
    /\ "hello" \in DOMAIN cache
    /\ cache["hello"].queue = <<1, 2, 3>>
    /\ apis = 1
    /\ Len(runners) = 1
    /\ runners[1].pc = "send_wx"

\* C16: a runner whose garbage-collect send failed (the scheduler had
\* returned) goes on to the notification: it took the process-ended branch,
\* delivered nothing, does not return an error, and exits having broadcast
\* its one Shutdown event.
C16_FailedGcSendOnlyLogged ==
    /\ [](\A r \in Runners :
            runners[r].gc_err =>
                /\ ~loop_running
                /\ runners[r].branch = "main"
                /\ runners[r].pc \in {"send_event", "done"}
                /\ runners[r].gc_sent = <<runners[r].name>>
                /\ runners[r].pc = "send_event" => EventsOf(r) = <<>>
                /\ runners[r].pc = "done" =>
                       /\ Len(EventsOf(r)) = 1
                       /\ EventsOf(r)[1].kind = "Shutdown")
    /\ [][\A r \in Runners :
            (~runners[r].gc_err /\ runners'[r].gc_err) =>
                /\ runners[r].pc = "gc_send"
                /\ runners'[r].pc = "send_event"
                /\ gc_rx' = gc_rx
                /\ events' = events]_vars
    /\ \A r \in 1..MaxRequests :
           (r \in Runners /\ runners[r].gc_err)
               ~> (r \in Runners /\ runners[r].pc = "done" /\ Len(EventsOf(r)) = 1)

\* C16 witness: the scheduler returned on shutdown, a runner then saw its
\* process end first, failed to send and has exited with its event.
C16_Witness ==
    /\ sched = "stopped"
    /\ gc_rx = <<>>
    /\ \E r \in Runners :
           /\ runners[r].gc_err
           /\ runners[r].pc = "done"
           /\ EventsOf(r) /= <<>>

\* C17: a runner whose construction reply is an error returns it from
\* start_function: it never enters the race, has no process, hands nothing
\* to gc_tx.send, broadcasts nothing, and stays returned; a runner returns an
\* error only so.
C17_ConstructionErrorReturns ==
    /\ [](\A r \in Runners :
            /\ runners[r].rx = "err" =>
                   /\ runners[r].pc \in {"recv_wx", "failed"}
                   /\ runners[r].branch = "none"
                   /\ runners[r].proc = "none"
                   /\ runners[r].gc_sent = <<>>
                   /\ ~runners[r].gc_err
                   /\ EventsOf(r) = <<>>
            /\ runners[r].pc = "failed" => runners[r].rx = "err")
    /\ [][\A r \in Runners :
            /\ runners[r].pc = "failed" => runners'[r] = runners[r]
            /\ (runners[r].rx = "err" /\ runners'[r].pc /= runners[r].pc) =>
                   runners'[r].pc = "failed" /\ gc_rx' = gc_rx /\ events' = events]_vars

\* C17 witness: one runner returned a construction error while another one
\* went through its race and exited.
C17_Witness ==
    \E r, q \in Runners :
        /\ runners[r].pc = "failed"
        /\ runners[q].pc = "done"
        /\ Len(events) = 1

\* C18: the step that takes a name f from gc_rx removes f's entry and nothing
\* else: every other entry keeps its API id and queue, no runner is launched
\* or changed, the worker and the notifier are untouched, the loop goes on;
\* without an entry for f the cache stays as it is.
C18_CleanOnlyThatFunction ==
    [][(gc_rx /= <<>> /\ gc_rx' = Tail(gc_rx)) =>
          /\ DOMAIN cache' = DOMAIN cache \ {Head(gc_rx)}
          /\ \A g \in DOMAIN cache' : cache'[g] = cache[g]
          /\ Head(gc_rx) \notin DOMAIN cache => cache' = cache
          /\ runners' = runners
          /\ sched' = sched /\ sched = "running"
          /\ apis' = apis
          /\ req_rx' = req_rx
          /\ wx_rx' = wx_rx /\ wx_cur' = wx_cur
          /\ events' = events]_vars

\* Every name in gc_rx has an entry: a runner sends its name once, its
\* function's entry is removed by the clean of that very message.
GcOnlyForEntries == \A i \in 1..Len(gc_rx) : gc_rx[i] \in DOMAIN cache

\* C18 witness: "hello" was cleaned while "world" had an entry, a queue of
\* two and a running process, all still there.
C18_Witness ==
    /\ cleans["hello"] = 1
    /\ "hello" \notin DOMAIN cache
    /\ "world" \in DOMAIN cache
    /\ Len(cache["world"].queue) = 2
    /\ LiveProcess("world")

\* The construction requests in flight: queued in wx_rx or at the worker.
ConstructionRequests ==
    {wx_rx[i] : i \in 1..Len(wx_rx)} \cup (IF wx_cur = NoReq THEN {} ELSE {wx_cur})

\* C20: every construction request carries the name and the API id of the
\* directive that launched its runner; a launch hands the new runner a clone
\* of the scheduler's watcher_config for the directive upsert returned; and
\* a runner that sets the fields and sends changes its own copy only: the
\* scheduler's watcher_config and every other runner's are as they were.
C20_OwnConfigOnly ==
    /\ [](/\ watcher_config = base_watcher_config
          /\ \A msg \in ConstructionRequests :
                /\ msg.tx \in Runners
                /\ msg.watcher_config.name = runners[msg.tx].name
                /\ msg.watcher_config.runtime_api = runners[msg.tx].api
                /\ msg.watcher_config = runners[msg.tx].watcher_config
                /\ HasBinSelector(msg.cmd.args, runners[msg.tx].name)
          /\ \A r \in Runners :
                runners[r].pc = "send_wx" => runners[r].watcher_config = watcher_config)
    /\ [][/\ watcher_config' = watcher_config
          /\ Len(runners') > Len(runners) =>
                /\ Len(runners') = Len(runners) + 1
                /\ \A q \in Runners : runners'[q] = runners[q]
                /\ LET new == runners'[Len(runners')]
                   IN /\ new.name \in DOMAIN cache'
                      /\ new.name \notin DOMAIN cache
                      /\ new.api = cache'[new.name].api
                      /\ new.watcher_config = watcher_config
          /\ \A r \in Runners :
                (runners[r].pc = "send_wx" /\ runners'[r].pc = "recv_wx") =>
                    /\ runners'[r].name = runners[r].name
                    /\ runners'[r].api = runners[r].api
                    /\ \A q \in Runners \ {r} :
                           runners'[q].watcher_config = runners[q].watcher_config
                    /\ \A i \in 1..Len(wx_rx) : wx_rx'[i] = wx_rx[i]
                    /\ wx_cur' = wx_cur]_vars

\* C20 witness: two requests in flight for two functions with two API ids,
\* each runner holding the configuration it sent, the scheduler's
\* watcher_config still without a name.
C20_Witness ==
    /\ wx_cur /= NoReq
    /\ Len(wx_rx) = 1
    /\ wx_cur.watcher_config.name /= wx_rx[1].watcher_config.name
    /\ wx_cur.watcher_config.runtime_api /= wx_rx[1].watcher_config.runtime_api
    /\ watcher_config.name = ""
    /\ runners[wx_cur.tx].watcher_config.name = runners[wx_cur.tx].name
    /\ runners[wx_rx[1].tx].watcher_config.name = runners[wx_rx[1].tx].name

====
